---- MODULE Spec2Model ----
(***************************************************************************)
(* Model of git/hooks/pre-commit.py: the commit-time security hook.       *)
(*                                                                         *)
(* Strings are TLA+ strings; the character at position i of s is          *)
(* SubSeq(s, i, i).  Regular expressions of the source are kept as small   *)
(* syntax trees and matched by the operators below with the semantics of  *)
(* Python's re.search.                                                     *)
(***************************************************************************)
EXTENDS Integers, Sequences, FiniteSets, TLC

-----------------------------------------------------------------------------
(* Characters and strings                                                  *)

CharAt(s, i) == SubSeq(s, i, i)

UpperLetters == "ABCDEFGHIJKLMNOPQRSTUVWXYZ"
LowerLetters == "abcdefghijklmnopqrstuvwxyz"
DigitChars == "0123456789"

CharsOf(s) == { CharAt(s, i) : i \in 1..Len(s) }

DigitSet == CharsOf(DigitChars)
WordSet == CharsOf(UpperLetters) \cup CharsOf(LowerLetters) \cup DigitSet \cup {"_"}
SpaceSet == {" ", "\t", "\n", "\r"}

UpperSet == CharsOf(UpperLetters)
ToLower ==
    [c \in UpperSet |->
        CharAt(LowerLetters, CHOOSE i \in 1..26 : CharAt(UpperLetters, i) = c)]

\* re.IGNORECASE: characters are compared after case folding.
Lower(c) == IF c \in UpperSet THEN ToLower[c] ELSE c

RECURSIVE LowerStr(_)
LowerStr(s) ==
    IF s = "" THEN "" ELSE Lower(CharAt(s, 1)) \o LowerStr(SubSeq(s, 2, Len(s)))

\* str.rstrip(): drop trailing whitespace.
RECURSIVE RStrip(_)
RStrip(s) ==
    IF s # "" /\ CharAt(s, Len(s)) \in SpaceSet
    THEN RStrip(SubSeq(s, 1, Len(s) - 1))
    ELSE s

Range(f) == { f[k] : k \in DOMAIN f }

Min(S) == CHOOSE a \in S : \A b \in S : a <= b

RECURSIVE SplitFrom(_, _, _)
SplitFrom(s, sep, from) ==
    IF \E k \in (from + 1)..Len(s) : CharAt(s, k) = sep
    THEN LET k == CHOOSE a \in (from + 1)..Len(s) :
                     /\ CharAt(s, a) = sep
                     /\ \A b \in (from + 1)..(a - 1) : CharAt(s, b) # sep
         IN  <<SubSeq(s, from + 1, k - 1)>> \o SplitFrom(s, sep, k)
    ELSE <<SubSeq(s, from + 1, Len(s))>>

\* str.split(sep) for a one-character separator: always at least one part.
SplitOn(s, sep) == SplitFrom(s, sep, 0)

\* str.split() without argument: split on runs of whitespace, no empty parts.
RECURSIVE SplitWs(_)
SplitWs(s) ==
    IF s = "" THEN <<>>
    ELSE IF CharAt(s, 1) \in SpaceSet THEN SplitWs(SubSeq(s, 2, Len(s)))
    ELSE LET stops == { i \in 1..Len(s) : CharAt(s, i) \in SpaceSet }
             k == IF stops = {} THEN Len(s) + 1 ELSE Min(stops)
         IN  <<SubSeq(s, 1, k - 1)>> \o SplitWs(SubSeq(s, k, Len(s)))

\* str(n) for a natural number.
RECURSIVE Str(_)
Str(n) ==
    IF n < 10 THEN CharAt(DigitChars, n + 1)
    ELSE Str(n \div 10) \o CharAt(DigitChars, (n % 10) + 1)

\* needle in haystack
Contains(hay, needle) ==
    \E i \in 1..(Len(hay) - Len(needle) + 1) :
        SubSeq(hay, i, i + Len(needle) - 1) = needle

-----------------------------------------------------------------------------
(* Regular expressions: a pattern is a sequence of items.                  *)
(*   t = "lit"  the literal text s, case-folded (every search of the      *)
(*              source is made with re.IGNORECASE)                         *)
(*   t = "dig"  \d                                                         *)
(*   t = "dot"  .                         t = "grp"  ( g )                 *)
(*   t = "bos"  ^     t = "eos"  $        t = "wb"   \b                    *)
(* q is the quantifier: "1", "?", "+" or "*".                              *)

Lit(s)    == [t |-> "lit", s |-> LowerStr(s), q |-> "1", g |-> <<>>]
Ch(c, q)  == [t |-> "lit", s |-> LowerStr(c), q |-> q,   g |-> <<>>]
Dig(q)    == [t |-> "dig", s |-> "", q |-> q,   g |-> <<>>]
Dot(q)    == [t |-> "dot", s |-> "", q |-> q,   g |-> <<>>]
Grp(g, q) == [t |-> "grp", s |-> "", q |-> q,   g |-> g]
Bos       == [t |-> "bos", s |-> "", q |-> "1", g |-> <<>>]
Eos       == [t |-> "eos", s |-> "", q |-> "1", g |-> <<>>]
Wb        == [t |-> "wb",  s |-> "", q |-> "1", g |-> <<>>]

IsWordAt(str, p) == p >= 1 /\ p <= Len(str) /\ CharAt(str, p) \in WordSet

RECURSIVE SeqEnds(_, _, _)
RECURSIVE AtomStep(_, _, _)
RECURSIVE Star(_, _, _)

\* Positions after one occurrence of the item's atom started at a position of P.
AtomStep(it, str, P) ==
    CASE it.t = "lit" ->
           { p + Len(it.s) : p \in
               { p \in P : /\ p + Len(it.s) - 1 <= Len(str)
                           /\ SubSeq(str, p, p + Len(it.s) - 1) = it.s } }
      [] it.t = "dig" ->
           { p + 1 : p \in { p \in P : p <= Len(str) /\ CharAt(str, p) \in DigitSet } }
      [] it.t = "dot" ->
           { p + 1 : p \in { p \in P : p <= Len(str) /\ CharAt(str, p) # "\n" } }
      [] it.t = "grp" -> SeqEnds(it.g, str, P)
      [] it.t = "bos" -> P \cap {1}
      [] it.t = "eos" ->
           { p \in P : \/ p = Len(str) + 1
                       \/ p = Len(str) /\ CharAt(str, p) = "\n" }
      [] it.t = "wb" ->
           { p \in P : IsWordAt(str, p - 1) # IsWordAt(str, p) }

\* Zero or more occurrences.
Star(it, str, P) ==
    LET N == P \cup AtomStep(it, str, P)
    IN  IF N = P THEN P ELSE Star(it, str, N)

ItemEnds(it, str, P) ==
    CASE it.q = "1" -> AtomStep(it, str, P)
      [] it.q = "?" -> P \cup AtomStep(it, str, P)
      [] it.q = "+" -> Star(it, str, AtomStep(it, str, P))
      [] it.q = "*" -> Star(it, str, P)

\* Positions where a match of the whole item sequence, started in P, can end.
SeqEnds(items, str, P) ==
    IF items = <<>> \/ P = {} THEN P
    ELSE SeqEnds(Tail(items), str, ItemEnds(Head(items), str, P))

\* The match positions of a case-folded subject: a match may start anywhere.
Found(pattern, folded) == SeqEnds(pattern, folded, 1..(Len(folded) + 1)) # {}

\* re.search(pattern, str, re.IGNORECASE) is not None
Search(pattern, str) == Found(pattern, LowerStr(str))

-----------------------------------------------------------------------------
(* Configuration of the hook                                               *)

file_add_limit == 10
file_change_limit == 50

OR == Grp(<<Lit("tools/OpenROAD/")>>, "?")
ODB == Grp(<<OR, Lit("src/OpenDB/")>>, "?")

blocked_path_patterns == <<
    <<Lit("flow/")>>,
    <<Lit(".gds")>>,
    <<Lit(".lef")>>,
    <<Lit(".cdl")>>,
    <<Lit(".cal")>>,
    <<Lit(".v")>>,
    <<Lit(".db")>>,
    <<Lit(".lib")>>,
    <<Lit("."), Ch("t", "?"), Lit("gz")>>,
    <<Lit(".tar")>>,
    <<Lit("tsmc")>>,
    <<Lit("gf"), Dig("+")>>,
    <<Dig("+"), Lit("lp")>>,
    <<Lit("sc"), Dig("+")>>,
    <<Lit("cln"), Dig("+")>>,
    <<Lit("scc9gena")>>,
    <<Lit("sky90")>> >>

allowed_path_patterns == <<
    <<Bos, Lit("flow/designs")>>,
    <<Bos, Lit("flow/docs")>>,
    <<Bos, Lit("flow/platforms/nangate45")>>,
    <<Bos, Lit("flow/platforms/sky130")>>,
    <<Bos, Lit("flow/platforms/asap7")>>,
    <<Bos, Lit("flow/scripts")>>,
    <<Bos, Lit("flow/test")>>,
    <<Bos, Lit("flow/util")>>,
    <<Bos, Lit("flow/README"), Dot("1"), Lit("md")>>,
    <<Bos, Lit("flow/Makefile")>>,
    <<Bos, OR, Lit("src/FastRoute/test")>>,
    <<Bos, OR, Lit("src/ICeWall/test")>>,
    <<Bos, ODB, Lit("src/lef"), Grp(<<Lit("56")>>, "?"), Lit("/TEST")>>,
    <<Bos, ODB, Lit("test")>>,
    <<Bos, OR, Lit("src/OpenPhySyn/test")>>,
    <<Bos, OR, Lit("src/OpenSTA/examples")>>,
    <<Bos, OR, Lit("src/OpenSTA/test")>>,
    <<Bos, OR, Lit("src/PDNSim/test")>>,
    <<Bos, OR, Lit("src/TritonCTS/test")>>,
    <<Bos, OR, Lit("src/TritonMacroPlace/test")>>,
    <<Bos, OR, Lit("src/antennachecker/test")>>,
    <<Bos, OR, Lit("src/dbSta/test")>>,
    <<Bos, OR, Lit("src/init_fp/test")>>,
    <<Bos, OR, Lit("src/ioPlacer/test")>>,
    <<Bos, OR, Lit("src/opendp/test")>>,
    <<Bos, OR, Lit("src/pdngen/test")>>,
    <<Bos, OR, Lit("src/replace/test")>>,
    <<Bos, OR, Lit("src/resizer/test")>>,
    <<Bos, OR, Lit("src/tapcell/test")>>,
    <<Bos, OR, Lit("src/OpenRCX/test")>>,
    <<Bos, OR, Lit("test")>>,
    <<Bos, Lit("tools/yosys")>> >>

\* One compiled expression: the alternatives of the alternation
\* (re.VERBOSE | re.IGNORECASE).
block_content_patterns == <<
    <<Lit("gf"), Dig("1"), Dig("+")>>,
    <<Lit("tsmc")>>,
    <<Dig("+"), Lit("lp")>>,
    <<Wb, Lit("arm"), Wb>>,
    <<Lit("cln"), Dig("+")>>,
    <<Lit("cypress")>> >>

skip_content_patterns == <<
    <<Lit(".gif"), Eos>>,
    <<Lit(".jpg"), Eos>>,
    <<Lit(".png"), Eos>>,
    <<Lit(".pdf"), Eos>>,
    <<Lit(".gif"), Eos>>,
    <<Lit(".odt"), Eos>>,
    <<Lit(".xlsx"), Eos>>,
    <<Lit(".dat"), Eos>>,
    <<Lit(".gds"), Grp(<<Lit(".orig")>>, "?"), Eos>>,
    <<Bos, Lit("README"), Dot("1"), Lit("md"), Eos>>,
    <<Bos, Lit("flow/README"), Dot("1"), Lit("md"), Eos>>,
    <<Bos, Grp(<<Lit("tools/TritonRoute")>>, "?"), Lit("/README"), Dot("1"), Lit("md"), Eos>>,
    <<Bos, OR, Lit("src/replace/README"), Dot("1"), Lit("md"), Eos>>,
    <<Bos, Lit("tools/yosys/")>>,
    <<Bos, Lit(".git/")>>,
    <<Bos, Lit("flow/designs/"), Dot("*"), Lit("/config"), Dot("1"), Lit("mk"), Eos>>,
    <<Bos, Lit("flow/designs/"), Dot("*"), Lit("/wrappers"), Dot("1"), Lit("tcl"), Eos>>,
    <<Bos, Lit("flow/designs/"), Dot("*"), Lit("/macros"), Dot("1"), Lit("v"), Eos>>,
    <<Bos, Lit("flow/designs/src/"), Dot("*"), Lit(".sv2v.v"), Eos>>,
    <<Bos, Lit("flow/scripts/add_routing_blk"), Dot("1"), Lit("tcl"), Eos>>,
    <<Bos, Lit("flow/scripts/floorplan"), Dot("1"), Lit("tcl"), Eos>>,
    <<Bos, Lit("flow/test/core_tests"), Dot("1"), Lit("sh"), Eos>>,
    <<Bos, Lit("flow/test/smoke"), Dot("1"), Lit("sh"), Eos>>,
    <<Bos, Lit("flow/util/cell-veneer/wrap_stdcells"), Dot("1"), Lit("tcl")>>,
    <<Bos, Lit("flow/util/cell-veneer/lefdef"), Dot("1"), Lit("tcl")>>,
    <<Bos, Lit("flow/Makefile"), Eos>> >>

repos_secure == {
    "/home/zf4_projects/OpenROAD-guest/platforms/gf12.git",
    "/home/zf4_projects/OpenROAD-guest/platforms/tsmc65lp.git" }

\* re.search over a list of patterns: does any of them match?
SearchAny(patterns, str) ==
    LET folded == LowerStr(str)
    IN  \E k \in 1..Len(patterns) : Found(patterns[k], folded)

-----------------------------------------------------------------------------
(* Functions of the hook                                                   *)

\* error(msg): the text handed to sys.exit.
error(msg) ==
    "\n\nERROR: " \o msg \o "\n\nTo request an exception please contact Tom"

\* run_command: the command's standard output, stripped and split into lines.
run_command(out) == SplitOn(RStrip(out), "\n")

\* f.readlines(): the lines of a file, each with its line end.
ReadLines(text) ==
    LET parts == SplitOn(text, "\n")
        n == Len(parts)
    IN  [k \in 1..(IF parts[n] = "" THEN n - 1 ELSE n) |->
            IF k < n THEN parts[k] \o "\n" ELSE parts[k]]

is_blocked_unanchored(name) ==
    LET blocked == SearchAny(blocked_path_patterns, name)
    IN  IF blocked
        THEN ~SearchAny([k \in 1..Len(allowed_path_patterns) |->
                            Tail(allowed_path_patterns[k])], name)
        ELSE FALSE

\* is_blocked(name, args): first the blocked patterns, then, only if one of
\* them matched, the allowed patterns.
is_blocked(name) ==
    LET blocked == SearchAny(blocked_path_patterns, name)
    IN  IF blocked THEN ~SearchAny(allowed_path_patterns, name) ELSE FALSE

LineNumber_zero_based(cnt) == cnt

\* The number printed for the line at enumerate() position cnt.
LineNumber(cnt) == cnt + 1

\* The scan loop of check_content over the lines it obtained.
ScanLines(name, lns) ==
    LET hits == { cnt \in 0..(Len(lns) - 1) :
                      SearchAny(block_content_patterns, lns[cnt + 1]) }
    IN  IF hits = {}
        THEN [r |-> "ok", msg |-> "", read |-> TRUE, lns |-> lns]
        ELSE LET cnt == CHOOSE c \in hits : \A d \in hits : c <= d
             IN  [r |-> "error",
                  msg |-> error("File " \o name \o " contains blocked content"
                                \o " on line " \o Str(LineNumber(cnt))
                                \o " :\n  " \o lns[cnt + 1]),
                  read |-> TRUE, lns |-> lns]

SkipContent_allowed_too(name) ==
    \/ SearchAny(skip_content_patterns, name)
    \/ SearchAny(allowed_path_patterns, name)

\* The first loop of check_content: the name matches a skip pattern.
SkipContent(name) == SearchAny(skip_content_patterns, name)

check_content_never_skips(name, whole_file, idx, wt) ==
    IF name \in DOMAIN wt /\ wt[name].kind = "dir"
    THEN [r |-> "subdir", msg |-> "", read |-> FALSE, lns |-> <<>>]
    ELSE IF whole_file
    THEN ScanLines(name, ReadLines(wt[name].text))
    ELSE ScanLines(name, run_command(idx[name]))

\* check_content(name, args, whole_file) with the staged blobs idx and the
\* working tree wt.
check_content(name, whole_file, idx, wt) ==
    IF SkipContent(name)
    THEN [r |-> "skip", msg |-> "", read |-> FALSE, lns |-> <<>>]
    ELSE IF name \in DOMAIN wt /\ wt[name].kind = "dir"
    THEN [r |-> "subdir", msg |-> "", read |-> FALSE, lns |-> <<>>]
    ELSE IF whole_file
    THEN ScanLines(name, ReadLines(wt[name].text))
    ELSE ScanLines(name, run_command(idx[name]))

\* re.split('\t| \(', line)
RECURSIVE ReSplitRemote(_)
ReSplitRemote(line) ==
    LET seps == { k \in 1..Len(line) :
                    \/ CharAt(line, k) = "\t"
                    \/ CharAt(line, k) = " " /\ CharAt(line, k + 1) = "(" }
    IN  IF seps = {} THEN <<line>>
        ELSE LET k == CHOOSE a \in seps : \A b \in seps : a <= b
                 w == IF CharAt(line, k) = "\t" THEN 1 ELSE 2
             IN  <<SubSeq(line, 1, k - 1)>>
                    \o ReSplitRemote(SubSeq(line, k + w, Len(line)))

RemotesLoop_first_only(repos) ==
    IF repos = <<>> THEN "True"
    ELSE IF Head(repos) = "" THEN "False"
    ELSE LET parts == ReSplitRemote(Head(repos))
         IN  IF Len(parts) # 3 THEN "ValueError"
             ELSE IF parts[2] \notin repos_secure THEN "False"
             ELSE "True"

\* The loop of check_remotes_secure over the lines of `git remote --verbose`.
RECURSIVE RemotesLoop(_)
RemotesLoop(repos) ==
    IF repos = <<>> THEN "True"
    ELSE IF Head(repos) = "" THEN "False"
    ELSE LET parts == ReSplitRemote(Head(repos))
         IN  IF Len(parts) # 3 THEN "ValueError"
             ELSE IF parts[2] \notin repos_secure THEN "False"
             ELSE RemotesLoop(Tail(repos))

check_remotes_secure(out) == RemotesLoop(run_command(out))

\* One line of `git diff --cached --name-status` (main, the loop that splits
\* the lines): <<status, file>>, or the exception the line raises.
ParseStatusLine(line) ==
    LET l == SplitWs(line)
    IN  IF l = <<>> THEN [exc |-> "IndexError", rec |-> <<>>]
        ELSE IF CharAt(l[1], 1) = "R"
        THEN IF Len(l) # 3 THEN [exc |-> "AssertionError", rec |-> <<>>]
             ELSE [exc |-> "", rec |-> <<"R", l[3]>>]
        ELSE IF Len(l) # 2 \/ Len(l[1]) # 1
        THEN [exc |-> "AssertionError", rec |-> <<>>]
        ELSE [exc |-> "", rec |-> l]

num_added(lns) == Cardinality({ k \in 1..Len(lns) : lns[k][1] = "A" })
num_changed(lns) == Len(lns) - num_added(lns)

\* The limit tests of main.
TooManyAdded(n) == n > file_add_limit
TooManyChanged(n) == n > file_change_limit

PathChecked_not_deleted(status) == status # "D"

\* The file-name loop of main: is_blocked is called for every entry.
PathChecked(status) == TRUE

\* The content loop of main: "deleted are always ok".
ContentChecked(status) == status # "D"

-----------------------------------------------------------------------------
(* Inputs: what git and the file system hold when the hook runs            *)

\* Largest number of hand-picked entries in a staged change list.
MaxBase == 2

\* A staged entry: its line in `git diff --cached --name-status` and the
\* staged blob of its path ("" for a deletion, which has none).
StagedPool == {
    [line |-> "A\ttest_file",                    text |-> "gf12 secrets\n"],
    [line |-> "M\ttest_file",                    text |-> "harmless gf1 farm\n"],
    [line |-> "A\tnotes.txt",                    text |-> "\n\n\n  tsmc\n"],
    [line |-> "A\tflow/designs/foo.v",           text |-> "ok\nARM Limited\ndata for 12LP\n"],
    [line |-> "M\tflow/platforms/nangate45/netlist.v", text |-> "module foo;\n"],
    [line |-> "M\tREADME.md",                    text |-> "built for tsmc\n"],
    [line |-> "D\tfoo.v",                        text |-> ""],
    [line |-> "R100\told.v\tgf14/flow/designs",  text |-> "ok\n"],
    [line |-> "C100\ttest_file\tcopy_file",      text |-> "harmless gf1 farm\n"],
    [line |-> "A\tfoo.gds",                      text |-> "gf12 secrets\n"],
    [line |-> "M\tdir/some_GF12_data",           text |-> "ok\n"] }

\* The path an entry is about: the last field of its line.
NewName(line) == LET l == SplitWs(line) IN l[Len(l)]
IsDeletion(line) == CharAt(line, 1) = "D"

BaseLists ==
    { s \in UNION { [1..n -> StagedPool] : n \in 0..MaxBase } :
        \A a, b \in 1..Len(s) : a # b => NewName(s[a].line) # NewName(s[b].line) }

\* The entries used where the rest of the input is what varies.
SmallPool == { e \in StagedPool :
                 e.line \in {"A\ttest_file", "D\tfoo.v", "C100\ttest_file\tcopy_file"} }

SmallLists ==
    { s \in UNION { [1..n -> SmallPool] : n \in 0..MaxBase } :
        \A a, b \in 1..Len(s) : a # b => NewName(s[a].line) # NewName(s[b].line) }

\* file_add_limit added files and file_change_limit modified files: a change
\* list that is exactly at both limits.
Filler ==
    [k \in 1..(file_add_limit + file_change_limit) |->
        IF k <= file_add_limit
        THEN [line |-> "A\tfile" \o Str(k - 1), text |-> "\n"]
        ELSE [line |-> "M\tfile" \o Str(k - 1), text |-> "modified\n"]]

RECURSIVE JoinLines(_)
JoinLines(s) ==
    IF s = <<>> THEN "" ELSE Head(s).line \o "\n" \o JoinLines(Tail(s))

GfRepo == "/home/zf4_projects/OpenROAD-guest/platforms/gf12.git"
TsmcRepo == "/home/zf4_projects/OpenROAD-guest/platforms/tsmc65lp.git"
PublicRepo == "git@github.com:The-OpenROAD-Project/OpenROAD.git"

RemoteLines(name, url) ==
    name \o "\t" \o url \o " (fetch)\n" \o name \o "\t" \o url \o " (push)\n"

\* Outputs of `git remote --verbose`.
RemotePool == {
    "",
    RemoteLines("origin", GfRepo) \o RemoteLines("mirror", TsmcRepo),
    RemoteLines("origin", PublicRepo),
    RemoteLines("origin", GfRepo) \o RemoteLines("public", PublicRepo) }

\* What an uncommitted edit leaves in a file.
EditedText == "work in progress\n"

-----------------------------------------------------------------------------
VARIABLES
    args_local,   \* args.local
    git_remotes,  \* output of `git remote --verbose`
    git_status,   \* output of `git diff --cached --name-status`
    index,        \* staged blobs: path -> text, what `git show :path` prints
    worktree,     \* working tree: path -> [kind, text]
    pc,           \* where main is: "start", "remotes", "staged", "split", "added",
                  \* "changed", "paths", "contents", "local", or an end:
                  \* "done" (returned), "exit" (SystemExit), "raised"
    lines,        \* main's lines: the output lines, then <<status, file>>
    cur,            \* position of the running loop in lines
    visited,      \* files local() has walked
    exit_msg,     \* argument of sys.exit, or the name of the exception raised
    stdout,       \* what was printed
    log,          \* history: the checks made by this run, in order
    second,       \* history: is this the run after a working-tree change?
    first         \* history: how the run before it ended

vars == <<args_local, git_remotes, git_status, index, worktree, pc, lines, cur,
          visited, exit_msg, stdout, log, second, first>>

inputs == <<args_local, git_remotes, git_status, index>>

Ended == pc \in {"done", "exit", "raised"}

\* The hook is started on the staged entries `staged`.
Start(staged, loc, rem) ==
    LET kept == { e \in Range(staged) : ~IsDeletion(e.line) }
        blobs == { <<NewName(e.line), e.text>> : e \in kept }
        names == { b[1] : b \in blobs }
        blob == [n \in names |-> (CHOOSE b \in blobs : b[1] = n)[2]]
    IN  /\ args_local = loc
        /\ git_remotes = rem
        /\ git_status = JoinLines(staged)
        /\ index = blob
        /\ worktree = [n \in names |-> [kind |-> "file", text |-> blob[n]]]
        /\ pc = "start"
        /\ lines = <<>>
        /\ cur = 0
        /\ visited = {}
        /\ exit_msg = ""
        /\ stdout = <<>>
        /\ log = <<>>
        /\ second = FALSE
        /\ first = [pc |-> "", msg |-> ""]

\* The hook runs as a commit hook or with --local on a short change list of
\* a repository without remotes (as in test.py), as a commit hook with any of
\* the remotes, or as a commit hook on a change list that is at both limits
\* and has up to MaxBase more entries.
Init ==
    \/ \E base \in BaseLists, loc \in BOOLEAN : Start(base, loc, "")
    \/ \E base \in SmallLists, rem \in RemotePool : Start(base, FALSE, rem)
    \/ \E base \in SmallLists : Start(base \o Filler, FALSE, "")

Entry(check, idx, name, ok, read, lns) ==
    [check |-> check, idx |-> idx, name |-> name, ok |-> ok, read |-> read,
     lns |-> lns]

\* sys.exit(msg)
Exit(msg) == pc' = "exit" /\ exit_msg' = msg

\* main, up to the choice between local(top, args) and the staged checks.
MainStart ==
    /\ pc = "start"
    /\ pc' = IF args_local THEN "local" ELSE "remotes"
    /\ UNCHANGED <<inputs, worktree, lines, cur, visited, exit_msg, stdout, log,
                   second, first>>

\* main: if check_remotes_secure(): print, return.
MainRemotes ==
    /\ pc = "remotes"
    /\ LET r == check_remotes_secure(git_remotes)
       IN  CASE r = "True" ->
                  /\ stdout' = Append(stdout, "All git remotes are secure, checking skipped")
                  /\ pc' = "done"
                  /\ UNCHANGED exit_msg
             [] r = "False" ->
                  /\ pc' = "staged"
                  /\ UNCHANGED <<stdout, exit_msg>>
             [] OTHER ->
                  /\ pc' = "raised"
                  /\ exit_msg' = r
                  /\ UNCHANGED stdout
    /\ UNCHANGED <<inputs, worktree, lines, cur, visited, log, second, first>>

\* main: get the status of the staged files.
MainStaged ==
    /\ pc = "staged"
    /\ LET raw == run_command(git_status)
       IN  IF Len(raw[1]) = 0
           THEN Exit("ERROR: Nothing is staged") /\ UNCHANGED lines
           ELSE lines' = raw /\ pc' = "split" /\ UNCHANGED exit_msg
    /\ UNCHANGED <<inputs, worktree, cur, visited, stdout, log, second, first>>

\* main: split the lines in status and file; the first line that does not
\* have the expected shape raises.
MainSplit ==
    /\ pc = "split"
    /\ LET bad == { k \in 1..Len(lines) : ParseStatusLine(lines[k]).exc # "" }
       IN  IF bad # {}
           THEN /\ pc' = "raised"
                /\ exit_msg' = ParseStatusLine(lines[Min(bad)]).exc
                /\ UNCHANGED lines
           ELSE /\ lines' = [k \in 1..Len(lines) |-> ParseStatusLine(lines[k]).rec]
                /\ pc' = "added"
                /\ UNCHANGED exit_msg
    /\ UNCHANGED <<inputs, worktree, cur, visited, stdout, log, second, first>>

MainAdded_goes_on ==
    /\ pc = "added"
    /\ LET n == num_added(lines)
           bad == TooManyAdded(n)
       IN  /\ log' = Append(log, Entry("added", 0, "", ~bad, FALSE, <<>>))
           /\ IF bad
              THEN pc' = "changed" /\ UNCHANGED exit_msg
              ELSE pc' = "changed" /\ UNCHANGED exit_msg
    /\ UNCHANGED <<inputs, worktree, lines, cur, visited, stdout, second, first>>

\* main: "Check: num added".
MainAdded ==
    /\ pc = "added"
    /\ LET n == num_added(lines)
           bad == TooManyAdded(n)
       IN  /\ log' = Append(log, Entry("added", 0, "", ~bad, FALSE, <<>>))
           /\ IF bad
              THEN Exit(error("too many files added: " \o Str(n)
                              \o " vs limit " \o Str(file_add_limit)))
              ELSE pc' = "changed" /\ UNCHANGED exit_msg
    /\ UNCHANGED <<inputs, worktree, lines, cur, visited, stdout, second, first>>

\* main: "Check: num changed".
MainChanged ==
    /\ pc = "changed"
    /\ LET n == num_changed(lines)
           bad == TooManyChanged(n)
       IN  /\ log' = Append(log, Entry("changed", 0, "", ~bad, FALSE, <<>>))
           /\ IF bad
              THEN /\ Exit(error("too many files changed: " \o Str(n)
                                 \o " vs limit " \o Str(file_change_limit)))
                   /\ UNCHANGED cur
              ELSE pc' = "paths" /\ cur' = 1 /\ UNCHANGED exit_msg
    /\ UNCHANGED <<inputs, worktree, lines, visited, stdout, second, first>>

\* main: "Check: blocked files", one turn of the loop.
MainPath ==
    /\ pc = "paths"
    /\ LET name == lines[cur][2]
           bad == PathChecked(lines[cur][1]) /\ is_blocked(name)
       IN  /\ log' = IF PathChecked(lines[cur][1])
                     THEN Append(log, Entry("path", cur, name, ~bad, FALSE, <<>>))
                     ELSE log
           /\ IF bad
              THEN Exit(error("File name is blocked: " \o name)) /\ UNCHANGED cur
              ELSE /\ UNCHANGED exit_msg
                   /\ IF cur < Len(lines)
                      THEN cur' = cur + 1 /\ UNCHANGED pc
                      ELSE cur' = 1 /\ pc' = "contents"
    /\ UNCHANGED <<inputs, worktree, lines, visited, stdout, second, first>>

\* main: "Check: blocked content", one turn of the loop, and the final print.
MainContent ==
    /\ pc = "contents"
    /\ LET status == lines[cur][1]
           name == lines[cur][2]
           c == IF ContentChecked(status)
                THEN check_content(name, FALSE, index, worktree)
                ELSE [r |-> "none", msg |-> "", read |-> FALSE, lns |-> <<>>]
           said == IF c.r = "subdir"
                   THEN <<"Skipping content check on subdir " \o name>>
                   ELSE <<>>
       IN  /\ log' = IF c.r = "none" THEN log
                     ELSE Append(log, Entry("content", cur, name, c.r # "error",
                                            c.read, c.lns))
           /\ IF c.r = "error"
              THEN Exit(c.msg) /\ stdout' = stdout \o said /\ UNCHANGED cur
              ELSE /\ UNCHANGED exit_msg
                   /\ IF cur < Len(lines)
                      THEN cur' = cur + 1 /\ stdout' = stdout \o said /\ UNCHANGED pc
                      ELSE /\ stdout' = stdout \o said \o <<"Passed">>
                           /\ pc' = "done"
                           /\ UNCHANGED cur
    /\ UNCHANGED <<inputs, worktree, lines, visited, second, first>>

\* The regular files os.walk finds in the working tree.
WalkFiles == { n \in DOMAIN worktree : worktree[n].kind = "file" }

\* local(top, args): one file of the walk, in whatever order os.walk lists it.
LocalFile ==
    /\ pc = "local"
    /\ \E name \in WalkFiles \ visited :
        LET bad == is_blocked(name)
            c == check_content(name, TRUE, index, worktree)
        IN  /\ visited' = visited \cup {name}
            /\ IF bad
               THEN /\ log' = Append(log, Entry("path", 0, name, FALSE, FALSE, <<>>))
                    /\ Exit(error("File name is blocked: " \o name))
               ELSE /\ log' = log \o <<Entry("path", 0, name, TRUE, FALSE, <<>>),
                                       Entry("content", 0, name, c.r # "error",
                                             c.read, c.lns)>>
                    /\ IF c.r = "error"
                       THEN Exit(c.msg)
                       ELSE UNCHANGED <<pc, exit_msg>>
    /\ UNCHANGED <<inputs, worktree, lines, cur, stdout, second, first>>

\* local(top, args): the walk is over, main returns.
LocalReturn ==
    /\ pc = "local"
    /\ WalkFiles \ visited = {}
    /\ pc' = "done"
    /\ UNCHANGED <<inputs, worktree, lines, cur, visited, exit_msg, stdout, log,
                   second, first>>

\* The commit is tried once more with the same staged state, after one of the
\* staged paths was edited, removed or replaced by a directory in the working
\* tree.
Rerun ==
    /\ Ended
    /\ ~args_local
    /\ ~second
    /\ \E base \in StagedPool, w \in { [kind |-> "file", text |-> EditedText],
                                       [kind |-> "dir", text |-> ""],
                                       [kind |-> "absent", text |-> ""] } :
          /\ NewName(base.line) \in DOMAIN worktree
          /\ worktree' = [worktree EXCEPT ![NewName(base.line)] = w]
    /\ second' = TRUE
    /\ first' = [pc |-> pc, msg |-> exit_msg]
    /\ pc' = "start"
    /\ lines' = <<>>
    /\ cur' = 0
    /\ visited' = {}
    /\ exit_msg' = ""
    /\ stdout' = <<>>
    /\ log' = <<>>
    /\ UNCHANGED inputs

Next ==
    \/ MainStart
    \/ MainRemotes
    \/ MainStaged
    \/ MainSplit
    \/ MainAdded
    \/ MainChanged
    \/ MainPath
    \/ MainContent
    \/ LocalFile
    \/ LocalReturn
    \/ Rerun

Spec == Init /\ [][Next]_vars

-----------------------------------------------------------------------------
(* What the properties speak about                                         *)

\* The run is a commit check whose remotes did not switch the checks off.
Checking == ~args_local /\ check_remotes_secure(git_remotes) = "False"

\* lines holds the <<status, file>> records of the change list.
Parsed == Checking /\ pc \in {"added", "changed", "paths", "contents", "done", "exit"}
                   /\ lines # <<>>

Last(s) == s[Len(s)]

\* The name matches a blocked pattern somewhere, whatever the case.
MatchesBlocked(name) ==
    \E k \in 1..Len(blocked_path_patterns), at \in 1..(Len(name) + 1) :
        SeqEnds(blocked_path_patterns[k], LowerStr(name), {at}) # {}

\* An allowed pattern, taken without its ^, matches at the first character.
StartsAllowed(name) ==
    \E k \in 1..Len(allowed_path_patterns) :
        SeqEnds(Tail(allowed_path_patterns[k]), LowerStr(name), {1}) # {}

ShouldBlock(name) == MatchesBlocked(name) /\ ~StartsAllowed(name)

Skips(name) == SearchAny(skip_content_patterns, name)
OnDiskDir(name) == name \in DOMAIN worktree /\ worktree[name].kind = "dir"
LineBlocked(line) == SearchAny(block_content_patterns, line)

\* The text holds a blocked token somewhere.
HasToken(text) ==
    \E k \in 1..Len(block_content_patterns), at \in 1..(Len(text) + 1) :
        SeqEnds(block_content_patterns[k], LowerStr(text), {at}) # {}

\* The records of the staged change list as git reports them, one per line,
\* and their counts: a record is "added" when its status letter is A.
Records == SplitOn(RStrip(git_status), "\n")
AddedCount == Cardinality({ k \in 1..Len(Records) : CharAt(Records[k], 1) = "A" })
ChangedCount == Len(Records) - AddedCount

\* The URLs of the configured remotes.
RemoteUrls ==
    IF git_remotes = "" THEN {}
    ELSE { LET f == SplitOn(SplitOn(ln, "\t")[2], " ") IN f[1] :
             ln \in Range(SplitOn(RStrip(git_remotes), "\n")) }
AllRemotesSecure == RemoteUrls # {} /\ RemoteUrls \subseteq repos_secure

SkippedNote == "All git remotes are secure, checking skipped"

\* The checks of a complete run, in the order of main.
PathSteps == [k \in 1..Len(lines) |-> <<"path", k>>]
ContentSteps ==
    LET kept == { k \in 1..Len(lines) : lines[k][1] # "D" }
        RECURSIVE Up(_)
        Up(k) == IF k > Len(lines) THEN <<>>
                 ELSE (IF k \in kept THEN <<<<"content", k>>>> ELSE <<>>) \o Up(k + 1)
    IN  Up(1)
Expected == <<<<"added", 0>>, <<"changed", 0>>>> \o PathSteps \o ContentSteps
Done == [k \in 1..Len(log) |-> <<log[k].check, log[k].idx>>]

\* Does this check of the list find a violation?
Violates(step) ==
    CASE step[1] = "added" -> AddedCount > file_add_limit
      [] step[1] = "changed" -> ChangedCount > file_change_limit
      [] step[1] = "path" -> ShouldBlock(lines[step[2]][2])
      [] step[1] = "content" ->
           LET name == lines[step[2]][2]
           IN  /\ lines[step[2]][1] # "D"
               /\ ~Skips(name) /\ ~OnDiskDir(name) /\ HasToken(index[name])

-----------------------------------------------------------------------------
(* Properties                                                              *)

\* C1: every verdict of is_blocked is "blocked" exactly when the name
\* matches a blocked pattern somewhere (case-insensitively) and no allowed
\* pattern at its first character; gf14/flow/designs is blocked,
\* flow/designs/foo.v and flow/platforms/nangate45/netlist.v are not.
C1_IsBlockedVerdict ==
    \A k \in 1..Len(log) :
        log[k].check = "path" =>
            /\ ~log[k].ok <=> ShouldBlock(log[k].name)
            /\ ~MatchesBlocked(log[k].name) => log[k].ok
            /\ log[k].name = "gf14/flow/designs" => ~log[k].ok
            /\ log[k].name \in {"flow/designs/foo.v",
                                "flow/platforms/nangate45/netlist.v"} => log[k].ok

\* A name under the allow-listed flow/designs passed, then a name that has
\* flow/designs after gf14/ was blocked.
C1_Witness ==
    /\ pc = "exit"
    /\ Len(log) >= 2
    /\ log[Len(log) - 1].check = "path" /\ log[Len(log) - 1].ok
    /\ log[Len(log) - 1].name = "flow/designs/foo.v"
    /\ Last(log).check = "path" /\ ~Last(log).ok
    /\ Last(log).name = "gf14/flow/designs"

\* C2: a path that matches no skip pattern and is not a directory has its
\* lines scanned; if a line matches the blocked-content pattern the run fails
\* with the path, the 1-based number of the first matching line and that
\* line's text, otherwise check_content returns with no effect.
C2_ContentScan ==
    \A k \in 1..Len(log) :
        log[k].check = "content" =>
            LET e == log[k]
                hit == { n \in 1..Len(e.lns) : LineBlocked(e.lns[n]) }
            IN  /\ e.read <=> (~Skips(e.name) /\ ~OnDiskDir(e.name))
                /\ e.read /\ hit = {} => e.ok
                /\ e.read /\ hit # {} =>
                      /\ ~e.ok /\ k = Len(log) /\ pc = "exit"
                      /\ Contains(exit_msg,
                            "File " \o e.name \o " contains blocked content on line "
                               \o Str(Min(hit)) \o " :\n  " \o e.lns[Min(hit)])
                /\ e.read /\ ~args_local /\ index[e.name] = "gf12 secrets\n" =>
                      Contains(exit_msg, " on line 1 :\n  gf12 secrets")
                /\ e.read /\ ~args_local /\ index[e.name] = "\n\n\n  tsmc\n" =>
                      Contains(exit_msg, " on line 4 :\n    tsmc")

\* Three empty lines, then "  tsmc": the failure names line 4.
C2_Witness ==
    /\ pc = "exit"
    /\ ~args_local
    /\ Contains(exit_msg, "File notes.txt contains blocked content on line 4 :\n    tsmc")

\* C3: with added = the number of Added records and changed = the number of
\* all other records (Modified, Deleted, Renamed and Copied each counting
\* once), a commit check ends with "too many files added" when added > 10,
\* with "too many files changed" when changed > 50 (and added <= 10), and
\* with neither when added <= 10 and changed <= 50.
C3_Limits ==
    Checking /\ Ended /\ Len(Records[1]) # 0 =>
        /\ AddedCount > file_add_limit =>
              pc = "exit" /\ Contains(exit_msg, "too many files added")
        /\ AddedCount <= file_add_limit /\ ChangedCount > file_change_limit =>
              pc = "exit" /\ Contains(exit_msg, "too many files changed")
        /\ AddedCount <= file_add_limit /\ ChangedCount <= file_change_limit =>
              /\ ~Contains(exit_msg, "too many files added")
              /\ ~Contains(exit_msg, "too many files changed")

\* C4: the checks are skipped, and the run returns, exactly when there is a
\* remote and every remote URL is in repos_secure; otherwise nothing is
\* skipped: a run that returns has made every check.
C4_RemotesSecure ==
    ~args_local /\ pc \notin {"start", "remotes"} =>
        /\ check_remotes_secure(git_remotes) = "True" <=> AllRemotesSecure
        /\ AllRemotesSecure =>
              pc = "done" /\ log = <<>> /\ stdout = <<SkippedNote>>
        /\ ~AllRemotesSecure =>
              /\ SkippedNote \notin Range(stdout)
              /\ pc = "done" => Done = Expected

\* Both remotes are secure: the run returns although a staged file has a
\* blocked token.
C4_Witness ==
    /\ ~args_local
    /\ AllRemotesSecure
    /\ pc = "done"
    /\ stdout = <<SkippedNote>>
    /\ "test_file" \in DOMAIN index /\ HasToken(index["test_file"])

C6_WorkingTreeIrrelevant ==
    ~args_local /\ second /\ Ended => first = [pc |-> pc, msg |-> exit_msg]

\* C7: a rejection for a line of content says "blocked content pattern".
C7_ContentMessage ==
    ( /\ ~args_local
      /\ pc = "exit"
      /\ log # <<>>
      /\ Last(log).check = "content"
      /\ ~Last(log).ok )
    => Contains(exit_msg, "blocked content pattern")

\* C8: a commit check passes only if no entry that is not deleted, not
\* skipped and not a directory has a blocked token in its staged content,
\* whatever the path check said about its name; a content failure stands
\* also for a name that an allowed pattern unblocked.
C8_ContentIndependentOfPath ==
    Parsed =>
        /\ pc = "done" =>
              \A k \in 1..Len(lines) :
                  ( /\ lines[k][1] # "D"
                    /\ ~Skips(lines[k][2])
                    /\ ~OnDiskDir(lines[k][2]) )
                  => /\ ~HasToken(index[lines[k][2]])
                     /\ \E j \in 1..Len(log) :
                           log[j].check = "content" /\ log[j].idx = k /\ log[j].read
        /\ \A j \in 1..Len(log) :
              ( /\ log[j].check = "content"
                /\ log[j].read
                /\ HasToken(index[log[j].name]) )
              => pc = "exit" /\ ~log[j].ok

\* flow/designs/foo.v is unblocked by an allowed pattern and rejected for its
\* content.
C8_Witness ==
    /\ Parsed
    /\ pc = "exit"
    /\ MatchesBlocked("flow/designs/foo.v") /\ StartsAllowed("flow/designs/foo.v")
    /\ \E j \in 1..Len(log) :
          log[j].check = "path" /\ log[j].name = "flow/designs/foo.v" /\ log[j].ok
    /\ Contains(exit_msg, "File flow/designs/foo.v contains blocked content")

\* C9: for a name that matches a skip pattern check_content returns without
\* reading a line, whatever the content; the name check still applies to such
\* a name: foo.gds is rejected as a blocked file name.
C9_SkipContent ==
    \A k \in 1..Len(log) :
        /\ log[k].check = "content" /\ Skips(log[k].name) =>
              ~log[k].read /\ log[k].lns = <<>> /\ log[k].ok
        /\ log[k].check = "path" /\ Skips(log[k].name) =>
              (~log[k].ok <=> ShouldBlock(log[k].name))
        /\ log[k].check = "path" /\ log[k].name = "foo.gds" =>
              /\ Skips("foo.gds")
              /\ ~log[k].ok
              /\ pc = "exit"
              /\ Contains(exit_msg, "File name is blocked: foo.gds")

\* README.md holds a blocked token and was not read; foo.gds was rejected for
\* its name.
C9_Witness ==
    /\ pc = "exit"
    /\ "README.md" \in DOMAIN worktree
    /\ HasToken(worktree["README.md"].text)
    /\ \E k \in 1..Len(log) :
          log[k].check = "content" /\ log[k].name = "README.md" /\ ~log[k].read
    /\ Last(log).check = "path" /\ Last(log).name = "foo.gds" /\ ~Last(log).ok

\* C10: a commit check makes its checks in the order added limit, changed
\* limit, name of every entry, content of every entry that is not deleted;
\* it stops at the first check that fails, which is the first violation in
\* that order, and prints "Passed" only after every check was made and none
\* failed.
C10_CheckOrder ==
    Parsed =>
        /\ Len(Done) <= Len(Expected)
        /\ Done = SubSeq(Expected, 1, Len(Done))
        /\ \A k \in 1..Len(log) :
              /\ log[k].ok <=> ~Violates(Done[k])
              /\ ~log[k].ok => k = Len(log) /\ pc = "exit"
        /\ pc = "exit" => log # <<>> /\ ~Last(log).ok
        /\ "Passed" \in Range(stdout) <=> (pc = "done" /\ Done = Expected)
        /\ pc = "exit" =>
              Contains(exit_msg,
                  CASE Last(log).check = "added" -> "too many files added"
                    [] Last(log).check = "changed" -> "too many files changed"
                    [] Last(log).check = "path" -> "File name is blocked"
                    [] Last(log).check = "content" -> "contains blocked content")

\* The first entry has a blocked token, the second a blocked name: the name
\* is reported and no content was scanned.
C10_Witness ==
    /\ Parsed
    /\ pc = "exit"
    /\ Len(lines) = 2
    /\ Violates(<<"content", 1>>)
    /\ Violates(<<"path", 2>>)
    /\ Done = <<<<"added", 0>>, <<"changed", 0>>, <<"path", 1>>, <<"path", 2>>>>
    /\ Contains(exit_msg, "File name is blocked: " \o lines[2][2])
====
